---------------------------- MODULE Spec2Model ----------------------------
(***************************************************************************)
(* Zhele: the USB HID descriptor assembler (common/usb/hid.h) and the GPIO *)
(* port configuration registers (common/ioports.h).                        *)
(*                                                                         *)
(* Memory is a sequence of bytes; the byte at address a (counted from the  *)
(* start of the caller's buffer) is element a + 1 of the sequence.         *)
(***************************************************************************)
EXTENDS Integers, Sequences, FiniteSets, TLC

(***************************************************************************)
(* Bounds of the model.                                                    *)
(***************************************************************************)
\* longest report list drawn from the report pool
MaxReports == 2
\* bytes a caller's buffer may have beyond what the call writes
MaxSlack == 1
\* length of the pool's long report (more than 255 bytes: both length bytes used)
LongLen == 300
\* number of reports of the long list (6 + 3 * ManyCount does not fit a byte)
ManyCount == 84
\* number of reports of the longest list (its count does not fit a byte)
HugeCount == 256
\* length of each of the two reports of the oversize list
HalfLen == 40000
\* most pins a pin mask selects (the mask of all sixteen pins is tried too)
MaxPins == 2
\* most calls of ConfigureFrequence in a behaviour
MaxFlashCalls == 3

(***************************************************************************)
(* Fixed-width integers.                                                   *)
(***************************************************************************)
\* static_cast<uint8_t>(x)
U8(x) == x % 256

\* static_cast<uint16_t>(x)
U16(x) == x % 65536

(***************************************************************************)
(* HidReport<_Data...>: a report is a type, named here, whose Data holds   *)
(* its raw bytes; Data[sizeof...(_Data)] has at least one element.         *)
(***************************************************************************)
\* the template arguments _Data... of the report types tried
KeyboardData == <<5, 1, 9, 6>>
VendorData == <<6, 0, 255>>
EndCollectionData == <<192>>
LongData == [i \in 1..LongLen |-> (7 * i) % 256]
HalfData == [i \in 1..HalfLen |-> (3 * i) % 256]
OtherHalfData == [i \in 1..HalfLen |-> (5 * i + 1) % 256]

\* static constexpr uint8_t Data[sizeof...(_Data)] = {_Data...}
Data(report) ==
    CASE report = "Keyboard" -> KeyboardData
      [] report = "Vendor" -> VendorData
      [] report = "EndCollection" -> EndCollectionData
      [] report = "Long" -> LongData
      [] report = "Half" -> HalfData
      [] report = "OtherHalf" -> OtherHalfData

\* sizeof(_Reports::Data)
SizeofData(report) == Len(Data(report))

ReportPool == {"Keyboard", "Vendor", "Long"}

RECURSIVE ListsUpTo(_)
ListsUpTo(n) ==
    IF n = 0 THEN {<<>>}
    ELSE LET shorter == ListsUpTo(n - 1)
         IN  shorter \cup {Append(l, r) : l \in {s \in shorter : Len(s) = n - 1}, r \in ReportPool}

ManyList == [i \in 1..ManyCount |-> IF i % 2 = 0 THEN "EndCollection" ELSE "Vendor"]
HugeList == [i \in 1..HugeCount |-> "EndCollection"]
OversizeList == <<"Half", "OtherHalf">>

\* the _Version template arguments tried (0x0200 is the default)
DefaultVersion == 512
Versions == {DefaultVersion, 273}

\* the instantiations HidImpl<_Version, _Reports...> the model runs
Instantiations == ListsUpTo(MaxReports) \X Versions

\* instantiations whose counts or sizes pass the width of a descriptor field
LargeInstantiations == {ManyList, HugeList, OversizeList} \X {DefaultVersion}

\* The expansion of a pack of more than one report is the expansion of its
\* first reports followed by the expansion of the rest.  (The folds below
\* test the cursor between the two only to have the first evaluated before
\* the rest; a cursor never passes the end of the buffers passed here.)
FirstHalf(reports) == SubSeq(reports, 1, Len(reports) \div 2)
SecondHalf(reports) == SubSeq(reports, Len(reports) \div 2 + 1, Len(reports))

\* sum of the reports' sizes, as a mathematical integer
RECURSIVE TotalSize(_)
TotalSize(reports) ==
    IF reports = <<>> THEN 0
    ELSE IF Len(reports) = 1 THEN SizeofData(reports[1])
    ELSE TotalSize(FirstHalf(reports)) + TotalSize(SecondHalf(reports))

(***************************************************************************)
(* HidImpl                                                                 *)
(***************************************************************************)
\* uint8_t Length = 0x06 + 3 * sizeof...(_Reports)
Length(reports) == U8(6 + 3 * Len(reports))

DescriptorType == 33

CountryCode == 0

\* uint8_t ReportsCount = sizeof...(_Reports)
ReportsCount(reports) == U8(Len(reports))

\* sizeof(_HidImpl): two bytes, a 16-bit word, two bytes
SizeofHidImpl == 6

\* The bytes of a HidImpl object in memory (little-endian target).
HidImpl(reports, version) ==
    << Length(reports), DescriptorType, U8(version), U8(version \div 256),
       CountryCode, ReportsCount(reports) >>

\* (static_cast<uint16_t>(sizeof(_Reports::Data)) + ...): the operands are
\* promoted to int and added
RECURSIVE FoldPlus(_)
FoldPlus(reports) ==
    IF Len(reports) = 1 THEN U16(SizeofData(reports[1]))
    ELSE FoldPlus(FirstHalf(reports)) + FoldPlus(SecondHalf(reports))

\* A unary fold over + of an empty pack is ill-formed: ReportsSize, and
\* FillReports which calls it, do not compile for an empty report list.
ReportsSizeWellFormed(reports) == reports # <<>>

\* static constexpr uint16_t ReportsSize()
ReportsSize(reports) == U16(FoldPlus(reports))

\* *address++ = value
Store(mem, address, value) == [mem EXCEPT ![address + 1] = value]

\* The comma fold of FillReportsDescriptors: for each report, from the left,
\* the type and the two bytes of its size.
RECURSIVE FoldDescriptors(_, _, _)
FoldDescriptors(reports, mem, address) ==
    IF reports = <<>> THEN [mem |-> mem, address |-> address]
    ELSE IF Len(reports) = 1
    THEN LET size == U16(SizeofData(reports[1]))
             m1 == Store(mem, address, 34)
             m2 == Store(m1, address + 1, U8(size % 256))
             m3 == Store(m2, address + 2, U8((size \div 256) % 256))
         IN  [mem |-> m3, address |-> address + 3]
    ELSE LET first == FoldDescriptors(FirstHalf(reports), mem, address)
         IN  IF first.address <= Len(first.mem)
             THEN FoldDescriptors(SecondHalf(reports), first.mem, first.address)
             ELSE first

\* static uint16_t FillReportsDescriptors(uint8_t* address)
FillReportsDescriptors(reports, mem, address) ==
    LET done == FoldDescriptors(reports, mem, address)
    IN  [mem |-> done.mem, address |-> done.address, ret |-> U16(3 * Len(reports))]

\* memcpy that leaves the last of the n bytes as it was
MemcpyShort(mem, address, data, n) ==
    SubSeq(mem, 1, address) \o SubSeq(data, 1, n - 1) \o SubSeq(mem, address + n, Len(mem))

\* memcpy(address, data, n): n bytes of data replace those from address on
Memcpy(mem, address, data, n) ==
    SubSeq(mem, 1, address) \o SubSeq(data, 1, n) \o SubSeq(mem, address + n + 1, Len(mem))

\* The comma fold of FillReports: for each report, from the left, memcpy
\* and address += sizeof(_Reports::Data).
RECURSIVE FoldReports(_, _, _)
FoldReports(reports, mem, address) ==
    IF reports = <<>> THEN [mem |-> mem, address |-> address]
    ELSE IF Len(reports) = 1
    THEN LET n == SizeofData(reports[1])
         IN  [mem |-> Memcpy(mem, address, Data(reports[1]), n), address |-> address + n]
    ELSE LET first == FoldReports(FirstHalf(reports), mem, address)
         IN  IF first.address <= Len(first.mem)
             THEN FoldReports(SecondHalf(reports), first.mem, first.address)
             ELSE first

\* FillReports copying the reports from the last to the first
FillReportsBackwards(reports, mem, address) ==
    LET backwards == [i \in 1..Len(reports) |-> reports[Len(reports) + 1 - i]]
        done == FoldReports(backwards, mem, address)
    IN  [mem |-> done.mem, address |-> done.address, ret |-> ReportsSize(reports)]

\* static uint16_t FillReports(uint8_t* address)
FillReports(reports, mem, address) ==
    LET done == FoldReports(reports, mem, address)
    IN  [mem |-> done.mem, address |-> done.address, ret |-> ReportsSize(reports)]

\* HidInterface::FillDescriptor, from hidDescriptor on: the HidImpl object
\* is stored, then FillReportsDescriptors writes behind it.  ret is
\* sizeof(_HidImpl) + bytesWritten, the class descriptor's share of totalLength.
FillDescriptor(reports, version, mem, hidDescriptor) ==
    LET stored == Memcpy(mem, hidDescriptor, HidImpl(reports, version), SizeofHidImpl)
        reportsPart == hidDescriptor + SizeofHidImpl
        filled == FillReportsDescriptors(reports, stored, reportsPart)
    IN  [mem |-> filled.mem, address |-> filled.address,
         ret |-> U16(SizeofHidImpl + filled.ret)]

(***************************************************************************)
(* NativePortBase and PortImplementation (common/ioports.h): the registers *)
(* are 32 bits wide, unsigned is 32 bits, DataType is uint16_t.            *)
(***************************************************************************)
\* A 32-bit word is held as its two 16-bit halves, <<high, low>>.
Word(x) == <<x \div 65536, x % 65536>>

RECURSIVE BitAnd16(_, _)
BitAnd16(a, b) ==
    IF a = 0 \/ b = 0 THEN 0
    ELSE (a % 2) * (b % 2) + 2 * BitAnd16(a \div 2, b \div 2)

\* a & b
BitAnd(a, b) == <<BitAnd16(a[1], b[1]), BitAnd16(a[2], b[2])>>

\* a | b
BitOr(a, b) == <<a[1] + b[1] - BitAnd16(a[1], b[1]), a[2] + b[2] - BitAnd16(a[2], b[2])>>

\* ~a
BitNot(a) == <<65535 - a[1], 65535 - a[2]>>

\* a << n, the bits shifted past bit 31 dropped
Shl(a, n) ==
    IF n >= 16 THEN <<(a[2] * 2 ^ (n - 16)) % 65536, 0>>
    ELSE <<(a[1] * 2 ^ n + (a[2] * 2 ^ n) \div 65536) % 65536, (a[2] * 2 ^ n) % 65536>>

\* a * c in unsigned arithmetic, for a factor c below 2^15
Times(a, c) == <<(a[1] * c + (a[2] * c) \div 65536) % 65536, (a[2] * c) % 65536>>

\* mask >> 8 of a DataType
HighByte(mask) == mask \div 256

\* enum Configuration: Analog, In, Out, AltFunc
Configuration == {0, 4, 3, 11}

\* enum PullMode: NoPull, PullUp, PullDown
PullMode == {0, 8, 24}

\* enum DriverType: PushPull, OpenDrain
DriverType == {0, 4}

\* enum Speed: Slow, Medium, Fast
Speed == {1, 2, 3}

\* static constexpr unsigned int ConfigurationMask(unsigned mask)
ConfigurationMask(mask) ==
    LET mask1 == BitOr(Shl(BitAnd(Word(mask), Word(240)), 12), BitAnd(Word(mask), Word(15)))
        mask2 == BitOr(Shl(BitAnd(mask1, Word(786444)), 6), BitAnd(mask1, Word(196611)))
    IN  BitOr(Shl(BitAnd(mask2, Word(33686018)), 3), BitAnd(mask2, Word(16843009)))

\* UnpackConfig without clearing the selected pins' fields first
UnpackConfigNoClear(mask, value, configuration, configMask) ==
    BitOr(value, Times(ConfigurationMask(mask), configuration))

\* static unsigned UnpackConfig(mask, value, configuration, configMask)
UnpackConfig(mask, value, configuration, configMask) ==
    LET m == ConfigurationMask(mask)
    IN  BitOr(BitAnd(value, BitNot(Times(m, configMask))), Times(m, configuration))

\* static void Set(DataType value)
Set(regs, value) == [regs EXCEPT !.BSRR = Word(value)]

\* static void Clear(DataType value)
Clear(regs, value) == [regs EXCEPT !.BSRR = Shl(Word(value), 16)]

\* static void SetConfiguration(DataType mask, Configuration configuration)
SetConfiguration(regs, mask, configuration) ==
    [regs EXCEPT !.CRL = UnpackConfig(mask, regs.CRL, configuration, 15),
                 !.CRH = UnpackConfig(HighByte(mask), regs.CRH, configuration, 15)]

\* template<DataType mask, Configuration configuration> static void SetConfiguration()
SetConfigurationTemplate(regs, mask, configuration) ==
    LET lowMaskPart == ConfigurationMask(mask)
        highMaskPart == ConfigurationMask(HighByte(mask))
    IN  [regs EXCEPT
            !.CRL = BitOr(BitAnd(regs.CRL, BitNot(Times(lowMaskPart, 15))),
                          Times(lowMaskPart, configuration)),
            !.CRH = BitOr(BitAnd(regs.CRH, BitNot(Times(highMaskPart, 15))),
                          Times(highMaskPart, configuration))]

\* static void SetSpeed(DataType mask, Speed speed)
SetSpeed(regs, mask, speed) ==
    [regs EXCEPT !.CRL = UnpackConfig(mask, regs.CRL, speed, 3),
                 !.CRH = UnpackConfig(HighByte(mask), regs.CRH, speed, 3)]

\* template<DataType mask, Speed speed> void SetSpeed()
SetSpeedTemplate(regs, mask, speed) ==
    LET lowMaskPart == ConfigurationMask(mask)
        highMaskPart == ConfigurationMask(mask)
    IN  [regs EXCEPT
            !.CRL = BitOr(BitAnd(regs.CRL, BitNot(Times(lowMaskPart, 3))),
                          Times(lowMaskPart, speed)),
            !.CRH = BitOr(BitAnd(regs.CRH, BitNot(Times(highMaskPart, 3))),
                          Times(highMaskPart, speed))]

\* mode & 0x08, mode & 0x10
ModeBits(mode, bits) == BitAnd16(mode, bits)

\* static void SetPullUp(DataType mask, PullMode mode)
SetPullUp(regs, mask, mode) ==
    LET configured ==
            [regs EXCEPT
                !.CRL = UnpackConfig(mask, regs.CRL, ModeBits(mode, 8), 15),
                !.CRH = UnpackConfig(HighByte(mask), regs.CRH, ModeBits(mode, 8), 15)]
    IN  IF ModeBits(mode, 16) # 0 THEN Set(configured, mask) ELSE Clear(configured, mask)

\* template <DataType mask, PullMode mode> static void SetPullUp()
SetPullUpTemplate(regs, mask, mode) ==
    LET lowMaskPart == ConfigurationMask(mask)
        highMaskPart == ConfigurationMask(mask)
        configured ==
            [regs EXCEPT
                !.CRL = BitOr(BitAnd(regs.CRL, BitNot(Times(lowMaskPart, 15))),
                              Times(lowMaskPart, ModeBits(mode, 8))),
                !.CRH = BitOr(BitAnd(regs.CRH, BitNot(Times(highMaskPart, 15))),
                              Times(highMaskPart, ModeBits(mode, 8)))]
    IN  IF ModeBits(mode, 16) # 0 THEN Set(configured, mask) ELSE Clear(configured, mask)

\* static void SetDriverType(DataType mask, DriverType driver)
SetDriverType(regs, mask, driver) ==
    [regs EXCEPT !.CRL = UnpackConfig(mask, regs.CRL, driver, 4),
                 !.CRH = UnpackConfig(HighByte(mask), regs.CRH, driver, 4)]

\* template <DataType mask, DriverType driver> static void SetDriverType()
SetDriverTypeTemplate(regs, mask, driver) ==
    LET lowMaskPart == ConfigurationMask(mask)
        highMaskPart == ConfigurationMask(mask)
    IN  [regs EXCEPT
            !.CRL = BitOr(BitAnd(regs.CRL, BitNot(Times(lowMaskPart, 4))),
                          Times(lowMaskPart, driver)),
            !.CRH = BitOr(BitAnd(regs.CRH, BitNot(Times(highMaskPart, 4))),
                          Times(highMaskPart, driver))]

(***************************************************************************)
(* Flash::ConfigureFrequence (f4/flash.h).  frequence, ws and FLASH->ACR   *)
(* are uint32_t, held as 32-bit words.                                     *)
(***************************************************************************)
MaxFlashFrequence == 24000000

\* FLASH_ACR_PRFTEN, FLASH_ACR_ICEN and FLASH_ACR_DCEN of the device header:
\* bits 8, 9 and 10 of FLASH->ACR
FLASH_ACR_PRFTEN == 256
FLASH_ACR_ICEN == 512
FLASH_ACR_DCEN == 1024

\* a - 1 in uint32_t: 0 - 1 is 0xFFFFFFFF
MinusOne(a) ==
    IF a[2] > 0 THEN <<a[1], a[2] - 1>>
    ELSE IF a[1] > 0 THEN <<a[1] - 1, 65535>>
    ELSE <<65535, 65535>>

\* a / d in uint32_t for a divisor that is a multiple of 512, as
\* MaxFlashFrequence is: (a / 512) / (d / 512), and a / 512 fits 23 bits
DividedBy(a, d) == (a[1] * 128 + a[2] \div 512) \div (d \div 512)

\* ws as ConfigureFrequence computes it
WaitStates(frequence) ==
    LET ws == DividedBy(MinusOne(frequence), MaxFlashFrequence)
    IN  IF ws > 7 THEN 7 ELSE ws

\* FLASH->ACR |= value
OrAssignAcr(acr, value) == BitOr(acr, value)

\* void Flash::ConfigureFrequence(uint32_t frequence): what it leaves in FLASH->ACR
ConfigureFrequence(acr, frequence) ==
    OrAssignAcr(acr,
        BitOr(BitOr(BitOr(Word(FLASH_ACR_PRFTEN), Word(FLASH_ACR_ICEN)),
                    Word(FLASH_ACR_DCEN)),
              Word(WaitStates(frequence))))

(***************************************************************************)
(* The program: one instantiation of HidImpl / HidInterface, called by the *)
(* USB stack and by the control endpoint's dispatcher.                     *)
(***************************************************************************)
VARIABLES
    reports,    \* _Reports..., the report list of the instantiation
    version,    \* _Version
    op,         \* the latest call
    status,     \* how it ended: "ok", "ill-formed" (it does not compile) or "ub"
    mem,        \* the buffer it wrote to (the caller's, or SetupHandler's temp)
    ret,        \* the value it returned
    wrote,      \* how far it advanced its write cursor
    setup,      \* the setup packet it read from _Ep0::RxBuffer
    sent,       \* its calls of _Ep0::SendData
    last,       \* per operation of HidImpl, what its latest call wrote and returned
    again,      \* whether the latest call's operation had been called before
    port,       \* the GPIO port's registers CRL, CRH and BSRR (the value last written)
    portCall,   \* the call made on the port, with the registers it found
    ACR,        \* FLASH->ACR
    flashCall   \* the latest call of ConfigureFrequence and how many were made

hidVars == <<reports, version, op, status, mem, ret, wrote, setup, sent, last, again>>

portVars == <<port, portCall>>

flashVars == <<ACR, flashCall>>

vars == <<hidVars, portVars, flashVars>>

Operations == {"ReportsSize", "FillReportsDescriptors", "FillReports"}

\* prior contents of a buffer
FillBytes == {0, 170}

\* requests, descriptor selectors and lengths of the setup packets tried
\* (the codes are defined by the USB stack's headers)
Requests == {"GetDescriptor", "GetStatus"}
Values == {"HidReportDescriptor", "DeviceDescriptor"}
Lengths == {0, 3, 64, 65535}

NoPacket == [Request |-> "none", Value |-> "none", Length |-> 0]

\* a buffer of `capacity` bytes, each of them `fill`
RECURSIVE Fresh(_, _)
Fresh(capacity, fill) ==
    IF capacity = 0 THEN <<>>
    ELSE IF capacity = 1 THEN <<fill>>
    ELSE LET half == Fresh(capacity \div 2, fill)
         IN  half \o half \o Fresh(capacity % 2, fill)

\* the buffers a caller may pass to a call that writes `needed` bytes
Buffers(needed) ==
    {Fresh(needed + slack, fill) : slack \in 0..MaxSlack, fill \in FillBytes}

Result(written, count, value) == <<[out |-> SubSeq(written, 1, count), ret |-> value]>>

\* the registers after reset: every pin a floating input
ResetPort == [CRL |-> <<17476, 17476>>, CRH |-> <<17476, 17476>>, BSRR |-> <<0, 0>>]

NoCall == [name |-> "none", template |-> FALSE, mask |-> 0, argument |-> 0, found |-> ResetPort]

\* FLASH->ACR after reset
ResetAcr == <<0, 0>>

NoFlashCall == [frequence |-> <<0, 0>>, count |-> 0]

Start ==
    /\ op = "none"
    /\ status = "ok"
    /\ mem = <<>>
    /\ ret = 0
    /\ wrote = 0
    /\ setup = NoPacket
    /\ sent = <<>>
    /\ last = [o \in Operations |-> <<>>]
    /\ again = FALSE

Init ==
    /\ \E c \in Instantiations : reports = c[1] /\ version = c[2]
    /\ Start
    /\ port = ResetPort
    /\ portCall = NoCall
    /\ ACR = ResetAcr
    /\ flashCall = NoFlashCall

InitLarge ==
    /\ \E c \in LargeInstantiations : reports = c[1] /\ version = c[2]
    /\ Start
    /\ port = ResetPort
    /\ portCall = NoCall
    /\ ACR = ResetAcr
    /\ flashCall = NoFlashCall

\* a call that does not compile for this report list
IllFormed(name) ==
    /\ op' = name
    /\ status' = "ill-formed"
    /\ mem' = <<>>
    /\ ret' = 0
    /\ wrote' = 0
    /\ setup' = NoPacket
    /\ sent' = <<>>
    /\ again' = FALSE
    /\ UNCHANGED <<reports, version, last, portVars, flashVars>>

\* a call of HidImpl or HidInterface that ran on the caller's buffer
Returned(name, call) ==
    /\ op' = name
    /\ status' = "ok"
    /\ mem' = call.mem
    /\ ret' = call.ret
    /\ wrote' = call.address
    /\ setup' = NoPacket
    /\ sent' = <<>>
    /\ last' = IF name \in Operations
               THEN [last EXCEPT ![name] = Result(call.mem, call.address, call.ret)]
               ELSE last
    /\ again' = (name \in Operations /\ last[name] # <<>>)
    /\ UNCHANGED <<reports, version, portVars, flashVars>>

CallReportsSize ==
    IF ReportsSizeWellFormed(reports)
    THEN Returned("ReportsSize", [mem |-> <<>>, address |-> 0, ret |-> ReportsSize(reports)])
    ELSE IllFormed("ReportsSize")

CallFillReportsDescriptors ==
    \E buffer \in Buffers(3 * Len(reports)) :
        Returned("FillReportsDescriptors", FillReportsDescriptors(reports, buffer, 0))

CallFillReports ==
    IF ReportsSizeWellFormed(reports)
    THEN \E buffer \in Buffers(TotalSize(reports)) :
            Returned("FillReports", FillReports(reports, buffer, 0))
    ELSE IllFormed("FillReports")

CallFillDescriptor ==
    \E buffer \in Buffers(SizeofHidImpl + 3 * Len(reports)) :
        Returned("FillDescriptor", FillDescriptor(reports, version, buffer, 0))

\* sending all of temp, whatever length the host asked for
SendAll(length, size) == size

\* setup->Length < size ? setup->Length : size
SendLength(length, size) == IF length < size THEN length ELSE size

\* what SetupHandler does for a report descriptor request: temp is an
\* uninitialised array of ReportsSize() bytes
SendReports(packet) ==
    IF ~ReportsSizeWellFormed(reports)
    THEN /\ status' = "ill-formed"
         /\ mem' = <<>>
         /\ ret' = 0
         /\ wrote' = 0
         /\ sent' = <<>>
    ELSE IF TotalSize(reports) > ReportsSize(reports)
         \* FillReports writes past the end of temp: anything may be sent
         THEN /\ status' = "ub"
              /\ mem' = <<>>
              /\ ret' = 0
              /\ wrote' = 0
              /\ sent' \in {<<>>, << <<>> >>, << <<0>> >>}
         ELSE \E fill \in FillBytes :
                LET filled == FillReports(reports, Fresh(ReportsSize(reports), fill), 0)
                    size == filled.ret
                    count == SendLength(packet.Length, size)
                IN  /\ status' = "ok"
                    /\ mem' = filled.mem
                    /\ ret' = 0
                    /\ wrote' = filled.address
                    /\ sent' = << SubSeq(filled.mem, 1, count) >>

\* static void HidInterface::SetupHandler()
SetupHandler ==
    \E packet \in [Request : Requests, Value : Values, Length : Lengths] :
        /\ setup' = packet
        /\ op' = "SetupHandler"
        /\ IF packet.Request = "GetDescriptor" /\ packet.Value = "HidReportDescriptor"
           THEN SendReports(packet)
           ELSE /\ status' = "ok"
                /\ mem' = <<>>
                /\ ret' = 0
                /\ wrote' = 0
                /\ sent' = <<>>
        /\ again' = FALSE
        /\ UNCHANGED <<reports, version, last, portVars, flashVars>>

Next ==
    \/ CallReportsSize
    \/ CallFillReportsDescriptors
    \/ CallFillReports
    \/ CallFillDescriptor
    \/ SetupHandler

Spec == Init /\ [][Next]_vars

SpecLarge == InitLarge /\ [][Next]_vars

(***************************************************************************)
(* The port: one call of a configuration function, on registers holding    *)
(* whatever the calls before left.                                         *)
(***************************************************************************)
RECURSIVE PinCount(_)
PinCount(mask) == IF mask = 0 THEN 0 ELSE (mask % 2) + PinCount(mask \div 2)

\* the pin masks tried
Masks == {mask \in 0..65535 : PinCount(mask) <= MaxPins} \cup {65535}

\* the contents CRL and CRH are found with
Contents ==
    {<< <<17476, 17476>>, <<17476, 17476>> >>,
     << <<0, 0>>, <<65535, 65535>> >>,
     << <<34952, 13107>>, <<13398, 48059>> >>}

InitPort ==
    /\ reports = <<"Keyboard">>
    /\ version = DefaultVersion
    /\ Start
    /\ \E c \in Contents : port = [CRL |-> c[1], CRH |-> c[2], BSRR |-> <<0, 0>>]
    /\ portCall = NoCall
    /\ ACR = ResetAcr
    /\ flashCall = NoFlashCall

Called(name, template, mask, argument, regs) ==
    /\ portCall.name = "none"
    /\ portCall' = [name |-> name, template |-> template, mask |-> mask,
                argument |-> argument, found |-> port]
    /\ port' = regs
    /\ UNCHANGED <<hidVars, flashVars>>

CallSetConfiguration ==
    \E mask \in Masks, configuration \in Configuration :
        Called("SetConfiguration", FALSE, mask, configuration,
               SetConfiguration(port, mask, configuration))

CallSetConfigurationTemplate ==
    \E mask \in Masks, configuration \in Configuration :
        Called("SetConfiguration", TRUE, mask, configuration,
               SetConfigurationTemplate(port, mask, configuration))

CallSetSpeed ==
    \E mask \in Masks, speed \in Speed :
        Called("SetSpeed", FALSE, mask, speed, SetSpeed(port, mask, speed))

CallSetSpeedTemplate ==
    \E mask \in Masks, speed \in Speed :
        Called("SetSpeed", TRUE, mask, speed, SetSpeedTemplate(port, mask, speed))

CallSetPullUp ==
    \E mask \in Masks, mode \in PullMode :
        Called("SetPullUp", FALSE, mask, mode, SetPullUp(port, mask, mode))

CallSetPullUpTemplate ==
    \E mask \in Masks, mode \in PullMode :
        Called("SetPullUp", TRUE, mask, mode, SetPullUpTemplate(port, mask, mode))

CallSetDriverType ==
    \E mask \in Masks, driver \in DriverType :
        Called("SetDriverType", FALSE, mask, driver, SetDriverType(port, mask, driver))

CallSetDriverTypeTemplate ==
    \E mask \in Masks, driver \in DriverType :
        Called("SetDriverType", TRUE, mask, driver, SetDriverTypeTemplate(port, mask, driver))

NextPort ==
    \/ CallSetConfiguration
    \/ CallSetConfigurationTemplate
    \/ CallSetSpeed
    \/ CallSetSpeedTemplate
    \/ CallSetPullUp
    \/ CallSetPullUpTemplate
    \/ CallSetDriverType
    \/ CallSetDriverTypeTemplate

SpecPort == InitPort /\ [][NextPort]_vars

(***************************************************************************)
(* The flash controller: calls of ConfigureFrequence, one after another.   *)
(***************************************************************************)
\* the frequencies passed, in Hz: both ends of each wait-state range, some
\* beyond the last range, zero and the largest uint32_t
Frequences ==
    {Word(f) : f \in {0, 1, 24000000, 24000001, 48000000, 48000001, 72000000,
                      72000001, 96000000, 96000001, 120000000, 120000001,
                      144000000, 144000001, 168000000, 168000001, 192000000,
                      192000001, 2147483647}}
        \cup {<<65535, 65535>>}

InitFlash ==
    /\ reports = <<"Keyboard">>
    /\ version = DefaultVersion
    /\ Start
    /\ port = ResetPort
    /\ portCall = NoCall
    /\ ACR = ResetAcr
    /\ flashCall = NoFlashCall

CallConfigureFrequence ==
    \E frequence \in Frequences :
        /\ flashCall.count < MaxFlashCalls
        /\ ACR' = ConfigureFrequence(ACR, frequence)
        /\ flashCall' = [frequence |-> frequence, count |-> flashCall.count + 1]
        /\ UNCHANGED <<hidVars, portVars>>

NextFlash == CallConfigureFrequence

SpecFlash == InitFlash /\ [][NextFlash]_vars

(***************************************************************************)
(* What the descriptor and the blob are to be, stated apart from the code. *)
(***************************************************************************)
Min(a, b) == IF a < b THEN a ELSE b

\* the reports' bytes, one report after the other
RECURSIVE Blob(_)
Blob(list) ==
    IF list = <<>> THEN <<>>
    ELSE IF Len(list) = 1 THEN Data(list[1])
    ELSE Blob(FirstHalf(list)) \o Blob(SecondHalf(list))

\* where report i starts in the blob: the sizes of the reports before it
Offset(list, i) == TotalSize(SubSeq(list, 1, i - 1))

\* the bytes written by the latest call
Written == SubSeq(mem, 1, wrote)

\* entry i (from 1) of a run of 3-byte sub-descriptors
Entry(bytes, i) == SubSeq(bytes, 3 * i - 2, 3 * i)

\* wDescriptorLength of entry i
EntryLength(bytes, i) == bytes[3 * i - 1] + 256 * bytes[3 * i]

RECURSIVE SumEntryLengths(_, _)
SumEntryLengths(bytes, n) ==
    IF n = 0 THEN 0 ELSE SumEntryLengths(bytes, n - 1) + EntryLength(bytes, n)

\* C1: for a report list of at most 65535 bytes in all, the class descriptor
\* that FillDescriptor assembles is 6 + 3 * N bytes long and its first byte,
\* bLength, is that count.
C1_LengthIsByteCount ==
    (op = "FillDescriptor" /\ TotalSize(reports) <= 65535)
        => /\ wrote = 6 + 3 * Len(reports)
           /\ mem[1] = wrote

\* C2: the assembled class descriptor is the wire layout byte for byte: type
\* 0x21, the version low byte first, country code 0, the count N, then per
\* report 0x22 and its length low byte first; FillReportsDescriptors returns
\* 3 * N.
C2_WireLayout ==
    /\ op = "FillDescriptor"
         => /\ mem[2] = 33
            /\ mem[3] = version % 256
            /\ mem[4] = version \div 256
            /\ mem[5] = 0
            /\ mem[6] = Len(reports)
            /\ \A i \in 0..(Len(reports) - 1) :
                 /\ mem[6 + 3 * i + 1] = 34
                 /\ mem[6 + 3 * i + 2] = SizeofData(reports[i + 1]) % 256
                 /\ mem[6 + 3 * i + 3] = SizeofData(reports[i + 1]) \div 256
    /\ op = "FillReportsDescriptors" => ret = 3 * Len(reports)

\* C3: FillReports writes the reports' bytes one report after the other, in
\* list order and with duplicates kept, report i at the offset that is the
\* sum of the sizes before it, and returns both the number of bytes written
\* and ReportsSize().
C3_BlobIsConcatenation ==
    (op = "FillReports" /\ status = "ok")
        => /\ Written = Blob(reports)
           /\ \A i \in 1..Len(reports) :
                SubSeq(mem, Offset(reports, i) + 1, Offset(reports, i) + SizeofData(reports[i]))
                    = Data(reports[i])
           /\ ret = wrote
           /\ ret = ReportsSize(reports)

\* C4: a report list of more than 65535 bytes in all is rejected before a
\* byte is written: ReportsSize does not return the sum cut to 16 bits, and
\* FillReports and FillReportsDescriptors write nothing.
C4_OversizeRejected ==
    TotalSize(reports) > 65535
        => /\ op = "ReportsSize" => ~(status = "ok" /\ ret = TotalSize(reports) % 65536)
           /\ op \in {"FillReports", "FillReportsDescriptors"} => wrote = 0

\* C5: for a GetDescriptor / HidReportDescriptor packet asking for L bytes,
\* with a blob of S = ReportsSize() bytes, SetupHandler fills a scratch
\* buffer of S bytes with the blob and sends the blob's first min(L, S)
\* bytes, never more than S and never more than L.
C5_SendsClampedBlob ==
    ( /\ op = "SetupHandler"
      /\ setup.Request = "GetDescriptor"
      /\ setup.Value = "HidReportDescriptor"
      /\ ReportsSizeWellFormed(reports)
      /\ TotalSize(reports) = ReportsSize(reports) )
        => /\ status = "ok"
           /\ Len(mem) = ReportsSize(reports)
           /\ mem = Blob(reports)
           /\ Len(sent) = 1
           /\ Len(sent[1]) = Min(setup.Length, ReportsSize(reports))
           /\ sent[1] = SubSeq(Blob(reports), 1, Min(setup.Length, ReportsSize(reports)))
           /\ Len(sent[1]) <= ReportsSize(reports)
           /\ Len(sent[1]) <= setup.Length

\* C5's case: a request for fewer bytes than the blob has, answered.
C5_Witness ==
    /\ op = "SetupHandler"
    /\ status = "ok"
    /\ Len(reports) = 2
    /\ sent # <<>>
    /\ setup.Length > 0
    /\ setup.Length < Len(mem)
    /\ Len(sent[1]) = setup.Length

\* C6: the empty report list is legal: the descriptor is 6 bytes with
\* bLength 6 and bNumDescriptors 0, FillReportsDescriptors writes nothing and
\* returns 0, ReportsSize and FillReports are defined and yield 0.
C6_EmptyListLegal ==
    reports = <<>>
        => /\ status = "ok"
           /\ op = "FillDescriptor" => (wrote = 6 /\ mem[1] = 6 /\ mem[6] = 0)
           /\ op = "FillReportsDescriptors" => (wrote = 0 /\ ret = 0)
           /\ op \in {"ReportsSize", "FillReports"} => (wrote = 0 /\ ret = 0)

\* C7: after FillReportsDescriptors and then FillReports over the same list,
\* the wDescriptorLength values add up to the length of the blob: the value
\* FillReports returned and the number of bytes it copied.
C7_LengthsSumToBlob ==
    (op = "FillReports" /\ status = "ok" /\ last["FillReportsDescriptors"] # <<>>)
        => LET sum == SumEntryLengths(last["FillReportsDescriptors"][1].out, Len(reports))
           IN  /\ sum = wrote
               /\ sum = ret

\* C8: the assembler keeps nothing between calls: whatever was called before
\* and whatever the buffer held, a call of ReportsSize, FillReportsDescriptors
\* or FillReports writes and returns what that operation's call before did.
C8_Stateless ==
    [][\A o \in Operations : last[o] # <<>> => last'[o] = last[o]]_vars

\* C8's case: FillReports called again, after the other two operations, on
\* a buffer that held something else than the first one.
C8_Witness ==
    /\ again
    /\ op = "FillReports"
    /\ \A o \in Operations : last[o] # <<>>
    /\ Len(reports) = 2
    /\ Len(mem) > wrote
    /\ mem[Len(mem)] = 170

\* the orders a list of n reports is put in: every one for a list from the
\* pool, the reversed and the rotated one for a longer list
Orders(n) ==
    IF n <= MaxReports
    THEN {p \in [1..n -> 1..n] : \A i, j \in 1..n : p[i] = p[j] => i = j}
    ELSE {[i \in 1..n |-> n + 1 - i], [i \in 1..n |-> (i % n) + 1]}

Permute(list, p) == [i \in 1..Len(list) |-> list[p[i]]]

\* the bytes of report i of the list in a blob
Segment(blob, list, i) ==
    SubSeq(blob, Offset(list, i) + 1, Offset(list, i) + SizeofData(list[i]))

\* C9: put in another order, the report list gives the same sub-descriptor
\* entries and the same blob segments in that order, and entry i is the one
\* of the report whose bytes are segment i of the blob.
C9_SamePermutation ==
    (op = "FillReports" /\ status = "ok" /\ last["FillReportsDescriptors"] # <<>>)
        => LET n == Len(reports)
               entries == last["FillReportsDescriptors"][1].out
           IN  /\ \A i \in 1..n :
                    /\ Entry(entries, i)[1] = 34
                    /\ EntryLength(entries, i) = U16(SizeofData(reports[i]))
                    /\ Segment(Written, reports, i) = Data(reports[i])
               /\ \A p \in Orders(n) :
                    LET other == Permute(reports, p)
                        otherEntries ==
                            FillReportsDescriptors(other, Fresh(3 * n, 0), 0).mem
                        otherBlob ==
                            FillReports(other, Fresh(TotalSize(other), 0), 0).mem
                    IN  \A i \in 1..n :
                          /\ Entry(otherEntries, i) = Entry(entries, p[i])
                          /\ Segment(otherBlob, other, i) = Segment(Written, reports, p[i])

\* C9's case: both buffers filled for a list of two different reports.
C9_Witness ==
    /\ op = "FillReports"
    /\ status = "ok"
    /\ last["FillReportsDescriptors"] # <<>>
    /\ Len(reports) = 2
    /\ reports[1] # reports[2]
    /\ SizeofData(reports[1]) # SizeofData(reports[2])

\* what the runtime function of that name leaves in the registers
Runtime(name, regs, mask, argument) ==
    CASE name = "SetConfiguration" -> SetConfiguration(regs, mask, argument)
      [] name = "SetSpeed" -> SetSpeed(regs, mask, argument)
      [] name = "SetPullUp" -> SetPullUp(regs, mask, argument)
      [] name = "SetDriverType" -> SetDriverType(regs, mask, argument)

\* C10: a template clone leaves in CRL and CRH what its runtime counterpart
\* leaves there for the same mask and argument and the same registers found.
C10_TemplateClonesAgree ==
    (portCall.name # "none" /\ portCall.template)
        => LET runtime == Runtime(portCall.name, portCall.found, portCall.mask, portCall.argument)
           IN  /\ port.CRL = runtime.CRL
               /\ port.CRH = runtime.CRH

\* bit i of a 16-bit mask
PinBit(mask, i) == (mask \div 2 ^ i) % 2

\* the 4-bit field i (0..7) of a register: its bits 4i..4i+3
Field(word, i) ==
    IF i < 4 THEN (word[2] \div 16 ^ i) % 16 ELSE (word[1] \div 16 ^ (i - 4)) % 16

\* the configuration field of pin p (0..15): in CRL for pins 0..7, in CRH for pins 8..15
PinField(regs, p) == IF p < 8 THEN Field(regs.CRL, p) ELSE Field(regs.CRH, p - 8)

\* ConfigurationMask(m) has bit 4i set exactly when bit i of the low byte of m
\* is set, and no other bit
SpreadsLowByte(m) ==
    \A i \in 0..7 : Field(ConfigurationMask(m), i) = PinBit(m, i)

\* C11: the runtime SetConfiguration(mask, configuration) changes exactly the
\* selected pins: after the call the field of pin p holds the configuration
\* when bit p of the mask is set and what it held before when the bit is
\* clear; and ConfigurationMask spreads bit i of the low byte to bit 4i, for
\* the mask and for its high byte.
C11_ChangesSelectedPins ==
    (portCall.name = "SetConfiguration" /\ ~portCall.template)
        => /\ \A p \in 0..15 :
                PinField(port, p) =
                    IF PinBit(portCall.mask, p) = 1
                    THEN portCall.argument
                    ELSE PinField(portCall.found, p)
           /\ SpreadsLowByte(portCall.mask)
           /\ SpreadsLowByte(HighByte(portCall.mask))

\* a runtime SetConfiguration that changed a pin of CRL and a pin of CRH and
\* left alone a pin whose field is not zero
C11_Witness ==
    /\ portCall.name = "SetConfiguration"
    /\ ~portCall.template
    /\ \E p \in 0..7, q \in 8..15, r \in 0..15 :
        /\ PinBit(portCall.mask, p) = 1
        /\ PinBit(portCall.mask, q) = 1
        /\ PinBit(portCall.mask, r) = 0
        /\ PinField(portCall.found, p) # portCall.argument
        /\ PinField(portCall.found, q) # portCall.argument
        /\ PinField(port, p) = portCall.argument
        /\ PinField(port, q) = portCall.argument
        /\ PinField(port, r) # 0

\* the wait-state (latency) bits of FLASH->ACR: its three lowest bits
Latency(acr) == acr[2] % 8

\* C12: after any sequence of ConfigureFrequence calls the latency bits of
\* FLASH->ACR hold the wait states computed for the most recent call,
\* min(7, (frequence - 1) / 24000000) for a frequence of at least 1, whatever
\* the calls before passed; and the wait states computed are in 0..7.
C12_LatencyIsLatest ==
    (flashCall.count > 0 /\ flashCall.frequence # <<0, 0>>)
        => /\ WaitStates(flashCall.frequence) \in 0..7
           /\ Latency(ACR) = WaitStates(flashCall.frequence)

=============================================================================
